---- MODULE Spec2Model ----
(***************************************************************************)
(* Quarter-car simulation (src/simulation.py), frame and displacement      *)
(* plotting (src/plotting.py) and the Dash callbacks that use them         *)
(* (src/app.py, src/python/app.py).                                        *)
(*                                                                         *)
(* Floating-point quantities are kept in fixed point:                      *)
(*   lengths in 10^-5 m, times in 10^-4 s, speeds in 0.1 m/s (so that a    *)
(*   speed times a time is a length), masses in kg, stiffness in N/m,      *)
(*   damping in Ns/m.  Divisions that are exact in the source are exact    *)
(*   here for the inputs the model draws; the others round to one unit.    *)
(***************************************************************************)
EXTENDS Integers, Sequences, FiniteSets, TLC

LenPerMetre == 10^5
TimePerSecond == 10^4

\* ------------------------------------------------------------- arithmetic

Abs(x) == IF x < 0 THEN -x ELSE x

Min2(x, y) == IF x <= y THEN x ELSE y

Max2(x, y) == IF x >= y THEN x ELSE y

\* int(a / b) of Python: the quotient truncated toward zero (b # 0).
TruncDiv(a, b) ==
    LET q == Abs(a) \div Abs(b)
    IN  IF (a < 0) = (b < 0) THEN q ELSE -q

\* a / b rounded to the nearest unit, halves away from zero (b > 0).
RoundDiv(a, b) ==
    LET q == Abs(a) \div b
        r == Abs(a) % b
        n == IF 2 * r >= b THEN q + 1 ELSE q
    IN  IF a >= 0 THEN n ELSE -n

\* round(a / b) of Python: nearest integer, halves to the even one (b > 0).
PyRound(a, b) ==
    LET fl == a \div b
        r2 == 2 * (a - fl * b)
    IN  IF r2 < b THEN fl
        ELSE IF r2 > b THEN fl + 1
        ELSE IF fl % 2 = 0 THEN fl ELSE fl + 1

\* seq[1:] of Python.
Tail1(s) == IF Len(s) = 0 THEN s ELSE SubSeq(s, 2, Len(s))

\* np.arange(start, stop, step): ceil((stop - start) / step) points.
arange(start, stop, step) ==
    LET n == Max2(0, (stop - start + step - 1) \div step)
    IN  [i \in 1..n |-> start + (i - 1) * step]

\* np.linspace(start, stop, num), endpoint included; num >= 0.
linspace(start, stop, num) ==
    [i \in 1..num |->
        IF num > 1 /\ i = num THEN stop
        ELSE IF num = 1 THEN start
        ELSE start + ((i - 1) * (stop - start)) \div (num - 1)]

\* The first position at which mask holds (mask holds somewhere).
FirstTrue(mask) ==
    CHOOSE k \in 1..Len(mask) : mask[k] /\ \A j \in 1..(k - 1) : ~mask[j]

\* The last position at which mask holds (mask holds somewhere).
LastTrue(mask) ==
    CHOOSE k \in 1..Len(mask) : mask[k] /\ \A j \in (k + 1)..Len(mask) : ~mask[j]

\* interp without the interpolation: the height of the profile point at or
\* before x.  A result computed with it is not piecewise linear.
interp_step(x, xp, fp) ==
    IF x <= xp[1] THEN fp[1]
    ELSE IF x >= xp[Len(xp)] THEN fp[Len(fp)]
    ELSE fp[LastTrue([k \in 1..Len(xp) |-> xp[k] <= x])]

\* np.interp(x, xp, fp): piecewise linear, clamped to fp's ends outside xp.
interp(x, xp, fp) ==
    IF x <= xp[1] THEN fp[1]
    ELSE IF x >= xp[Len(xp)] THEN fp[Len(fp)]
    ELSE LET j == LastTrue([k \in 1..Len(xp) |-> xp[k] <= x])
         IN  fp[j] + ((fp[j + 1] - fp[j]) * (x - xp[j])) \div (xp[j + 1] - xp[j])

\* ----------------------------------------------------------- road profile

\* Bump radius R = 0.10 m.
R == LenPerMetre \div 10

\* Number of points of th = np.linspace(0, np.pi, 50).
BumpPoints == 50

TrigScale == 10^4

\* TrigScale * cos(th[k]) for th = linspace(0, pi, 50), k = 1..50.
CosTh ==
    << 10000, 9979, 9918, 9816, 9673, 9491, 9269, 9010, 8713, 8381,
       8014, 7614, 7183, 6723, 6235, 5721, 5184, 4625, 4048, 3454,
       2845, 2225, 1596, 960, 321, -321, -960, -1596, -2225, -2845,
       -3454, -4048, -4625, -5184, -5721, -6235, -6723, -7183, -7614, -8014,
       -8381, -8713, -9010, -9269, -9491, -9673, -9816, -9918, -9979, -10000 >>

\* TrigScale * sin(th[k]) for the same th.
SinTh ==
    << 0, 641, 1279, 1912, 2537, 3151, 3753, 4339, 4907, 5455,
       5981, 6482, 6957, 7403, 7818, 8202, 8551, 8866, 9144, 9385,
       9587, 9749, 9872, 9954, 9995, 9995, 9954, 9872, 9749, 9587,
       9385, 9144, 8866, 8551, 8202, 7818, 7403, 6957, 6482, 5981,
       5455, 4907, 4339, 3753, 3151, 2537, 1912, 1279, 641, 0 >>

\* x1 = np.arange(0, 1.2, 0.1)
RoadX1 == arange(0, (12 * LenPerMetre) \div 10, LenPerMetre \div 10)

\* x2 = -R * cos(th) + 1.1 + R
RoadX2 ==
    [k \in 1..BumpPoints |->
        (-R * CosTh[k]) \div TrigScale + (11 * LenPerMetre) \div 10 + R]

\* z2 with the diameter in place of the radius: a bump twice as high.
RoadZ2Diameter == [k \in 1..BumpPoints |-> (2 * R * SinTh[k]) \div TrigScale]

\* z2 = R * sin(th)
RoadZ2 == [k \in 1..BumpPoints |-> (R * SinTh[k]) \div TrigScale]

\* x3 = np.arange(1.1 + 2R, 1.1 + 2R + 5.1, 0.1)
RoadX3 ==
    arange((11 * LenPerMetre) \div 10 + 2 * R,
           (11 * LenPerMetre) \div 10 + 2 * R + (51 * LenPerMetre) \div 10,
           LenPerMetre \div 10)

Zeros(n) == [i \in 1..n |-> 0]

\* Concatenation that keeps every point of every section, so that the
\* abscissae shared by two sections appear twice.
ConcatSectionsWhole(s1, s2, s3) == s1 \o s2 \o s3

\* Concatenation of the three sections, the first point of the bump and of
\* the trailing flat dropped.
ConcatSections(s1, s2, s3) == s1 \o Tail1(s2) \o Tail1(s3)

generate_road_profile ==
    [Xr |-> ConcatSections(RoadX1, RoadX2, RoadX3),
     Zr |-> ConcatSections(Zeros(Len(RoadX1)), RoadZ2, Zeros(Len(RoadX3)))]

\* ------------------------------------------------------------- simulation

\* Geometry constants of run_simulation.
L0_s == (4 * LenPerMetre) \div 10

L0_u == (3 * LenPerMetre) \div 10

h_s == (2 * LenPerMetre) \div 10

h_u == (1 * LenPerMetre) \div 10

a == (8 * LenPerMetre) \div 10

\* Fixed distance to cover.
xF == 6 * LenPerMetre

\* fR = 30 / playback_speed with playback_speed = .5, in frames per second.
fR == 60

\* A quotient n / d kept exact until it multiplies a state component.
Rat(n, d) == [n |-> n, d |-> d]

RECURSIVE GCD(_, _)
GCD(x, y) == IF y = 0 THEN x ELSE GCD(y, x % y)

\* (q.n / q.d) * x to the nearest unit; q.d # 0.  The quotient is reduced
\* to lowest terms and split into whole part and remainder so that the
\* products stay small.
MulRat(q, x) ==
    LET g == GCD(Abs(q.n), Abs(q.d))
        n == (IF q.d < 0 THEN -q.n ELSE q.n) \div g
        d == Abs(q.d) \div g
    IN  (n \div d) * x + RoundDiv((n % d) * x, d)

\* The quotient q in lowest terms, its denominator positive (q.d # 0).
Lowest(q) ==
    LET g == GCD(Abs(q.n), Abs(q.d))
    IN  Rat((IF q.d < 0 THEN -q.n ELSE q.n) \div g, Abs(q.d) \div g)

\* The state-space matrix with the damper pushing the sprung mass the wrong
\* way: the sign of the last entry of the sprung-acceleration row is changed.
MatrixAWrongDamperSign(M, m, Ks, Cs, Kt) ==
    << << Rat(0, 1), Rat(1, 1), Rat(0, 1), Rat(0, 1) >>,
       << Rat(-(Ks + Kt), m), Rat(-Cs, m), Rat(Ks, m), Rat(Cs, m) >>,
       << Rat(0, 1), Rat(0, 1), Rat(0, 1), Rat(1, 1) >>,
       << Rat(Ks, M), Rat(Cs, M), Rat(-Ks, M), Rat(Cs, M) >> >>

\* State-space model, state [z_u, z_u_dot, z_s, z_s_dot].
MatrixA(M, m, Ks, Cs, Kt) ==
    << << Rat(0, 1), Rat(1, 1), Rat(0, 1), Rat(0, 1) >>,
       << Rat(-(Ks + Kt), m), Rat(-Cs, m), Rat(Ks, m), Rat(Cs, m) >>,
       << Rat(0, 1), Rat(0, 1), Rat(0, 1), Rat(1, 1) >>,
       << Rat(Ks, M), Rat(Cs, M), Rat(-Ks, M), Rat(-Cs, M) >> >>

MatrixB(m, Kt) == << Rat(0, 1), Rat(Kt, m), Rat(0, 1), Rat(0, 1) >>

MatrixC == << <<1, 0, 0, 0>>, <<0, 0, 1, 0>> >>

MatrixD == <<0, 0>>

\* Initial state of lsim when X0 is not given.
X0 == <<0, 0, 0, 0>>

\* Sub-steps the model takes between two samples to integrate the system.
LsimSubsteps == 2

\* Row r of A x + B u.
Deriv(A, B, x, u, r) ==
    MulRat(A[r][1], x[1]) + MulRat(A[r][2], x[2]) + MulRat(A[r][3], x[3])
        + MulRat(A[r][4], x[4]) + MulRat(B[r], u)

\* x with component r advanced by one sub-step of length 1 / invh seconds.
UpdateRow(A, B, x, u, invh, r) ==
    [x EXCEPT ![r] = x[r] + RoundDiv(Deriv(A, B, x, u, r), invh)]

\* One sub-step: the velocities first, then the positions from the new
\* velocities (stable for the undamped modes at the sampling rate used).
SubStep(A, B, x, u, invh) ==
    UpdateRow(A, B,
        UpdateRow(A, B,
            UpdateRow(A, B,
                UpdateRow(A, B, x, u, invh, 2), u, invh, 4), u, invh, 1),
        u, invh, 3)

RECURSIVE Advance(_, _, _, _, _, _, _)
\* The state one sample later, the input interpolated linearly from u0 to u1.
Advance(A, B, x, u0, u1, invh, k) ==
    IF k >= LsimSubsteps THEN x
    ELSE Advance(A, B,
                 SubStep(A, B, x, u0 + ((u1 - u0) * k) \div LsimSubsteps, invh),
                 u0, u1, invh, k + 1)

RECURSIVE LsimStates(_, _, _, _, _)
\* xout of lsim: xout[1] = X0, each later state from the one before.
LsimStates(A, B, U, T, acc) ==
    IF Len(acc) >= Len(T) THEN acc
    ELSE LET i == Len(acc) + 1
             invh == (LsimSubsteps * TimePerSecond) \div (T[2] - T[1])
         IN  LsimStates(A, B, U, T,
                        Append(acc, Advance(A, B, acc[i - 1], U[i - 1], U[i], invh, 0)))

\* scipy.signal.lsim(sys, U, T) for the system (A, B, C, D): the outputs
\* y = C x + D u at every sample.  An empty T raises; a single sample gives a
\* squeezed (one-dimensional) output.
lsim(A, B, C, D, U, T) ==
    IF Len(T) = 0 THEN [raised |-> "IndexError", yout |-> << >>, squeezed |-> FALSE]
    ELSE LET xout == LsimStates(A, B, U, T, << X0 >>)
         IN  [raised |-> "none",
              yout |-> [i \in 1..Len(T) |->
                         [r \in 1..2 |->
                            C[r][1] * xout[i][1] + C[r][2] * xout[i][2]
                          + C[r][3] * xout[i][3] + C[r][4] * xout[i][4]
                          + D[r] * U[i]]],
              squeezed |-> Len(T) = 1]

\* The matrices A and B run_simulation builds for params, or the exception
\* the divisions by the masses end with.
StateSpace(params) ==
    IF params.m = 0 \/ params.M = 0
    THEN [raised |-> "ZeroDivisionError", A |-> << >>, B |-> << >>]
    ELSE [raised |-> "none",
          A |-> MatrixA(params.M, params.m, params.Ks, params.Cs, params.Kt),
          B |-> MatrixB(params.m, params.Kt)]

\* tF = xF / vel, vel # 0.
Duration(vel) == TruncDiv(xF, vel)

\* num_frames as round(tF * fR) would give it.
NumFramesRounded(tF) == PyRound(tF * fR, TimePerSecond)

\* num_frames = int(tF * fR)
NumFrames(tF) == TruncDiv(tF * fR, TimePerSecond)

\* lon = vel * time
Longitudinal(vel, time) == [i \in 1..Len(time) |-> vel * time[i]]

\* u = np.interp(lon, road_x, road_z)
RoadInput(lon, road_x, road_z) ==
    [i \in 1..Len(lon) |-> interp(lon[i], road_x, road_z)]

\* z_u without the rest offset: the displacement from rest itself.
UnsprungHeightRelative(yout) == [i \in 1..Len(yout) |-> yout[i][1]]

\* z_u = y_out[:, 0] + L0_u
UnsprungHeight(yout) == [i \in 1..Len(yout) |-> yout[i][1] + L0_u]

\* z_s = y_out[:, 1] + L0_u + L0_s
SprungHeight(yout) == [i \in 1..Len(yout) |-> yout[i][2] + L0_u + L0_s]

\* The value of result before run_simulation has returned one.
NoResult ==
    [time |-> << >>, z_s |-> << >>, z_u |-> << >>, u |-> << >>, lon |-> << >>,
     road_x |-> << >>, road_z |-> << >>,
     L0_s |-> 0, L0_u |-> 0, h_s |-> 0, h_u |-> 0, a |-> 0, Kt |-> 0]

Raise(exc) == [raised |-> exc, ret |-> NoResult]

\* run_simulation(params): the SimulationResult it returns, or the exception
\* it ends with.
run_simulation(p) ==
    LET M == p.M
        m == p.m
        Ks == p.Ks
        Cs == p.Cs
        Kt == p.Kt
        vel == p.vel
    IN  IF vel = 0 THEN Raise("ZeroDivisionError")
        ELSE
        LET tF == Duration(vel)
            num_frames == NumFrames(tF)
        IN  IF num_frames < 0 THEN Raise("ValueError")
            ELSE IF m = 0 \/ M = 0 THEN Raise("ZeroDivisionError")
            ELSE
            LET time == linspace(0, tF, num_frames)
                road == generate_road_profile
                lon == Longitudinal(vel, time)
                u == RoadInput(lon, road.Xr, road.Zr)
                out == lsim(MatrixA(M, m, Ks, Cs, Kt), MatrixB(m, Kt),
                            MatrixC, MatrixD, u, time)
            IN  IF out.raised # "none" THEN Raise(out.raised)
                ELSE IF out.squeezed THEN Raise("IndexError")
                ELSE [raised |-> "none",
                      ret |-> [time |-> time,
                               z_s |-> SprungHeight(out.yout),
                               z_u |-> UnsprungHeight(out.yout),
                               u |-> u,
                               lon |-> lon,
                               road_x |-> road.Xr,
                               road_z |-> road.Zr,
                               L0_s |-> L0_s,
                               L0_u |-> L0_u,
                               h_s |-> h_s,
                               h_u |-> h_u,
                               a |-> a,
                               Kt |-> Kt]]

\* ---------------------------------------------------------------- plotting

\* Figure coordinates are kept in half length units, so that the halving of
\* the coil length in create_spring_trace is exact, as it is in the source.
PlotPerMetre == 2 * LenPerMetre

\* A length or time of the result as a figure coordinate.
P(x) == 2 * x

PSeq(s) == [k \in 1..Len(s) |-> P(s[k])]

\* pct percent of x.
Pct(pct, x) == (pct * x) \div 100

\* get_spring_color without the clamp of kt_norm to [0, 1].
get_spring_color_unclamped(Kt) ==
    LET lo == 50000
        hi == 500000
    IN  << TruncDiv((hi - Kt) * 255, hi - lo), 0, TruncDiv((Kt - lo) * 255, hi - lo) >>

\* get_spring_color(Kt): the channels of the string 'rgb(r, 0, b)'.  The
\* quotients are exact; the source's doubles give the same channels for every
\* stiffness of KtSet.
get_spring_color(Kt) ==
    LET lo == 50000
        hi == 500000
        \* kt_norm = min(max((Kt - 5e4) / (5e5 - 5e4), 0), 1), as num / (hi - lo)
        num == Min2(Max2(Kt - lo, 0), hi - lo)
    IN  << TruncDiv((hi - lo - num) * 255, hi - lo), 0, TruncDiv(num * 255, hi - lo) >>

\* create_spring_trace with rods that are a fraction of the current length
\* z_top - z_bottom instead of the natural length.
create_spring_trace_scaled_rods(x_center, z_bottom, z_top, L0) ==
    LET rod == Pct(15, z_top - z_bottom)
        width == PlotPerMetre \div 10
        L == (z_top - z_bottom) - 2 * rod
    IN  [x |-> << x_center, x_center,
                  x_center + width, x_center - width,
                  x_center + width, x_center - width,
                  x_center, x_center >>,
         z |-> << z_bottom, z_bottom + rod, z_bottom + rod,
                  z_bottom + rod + Pct(50, L), z_bottom + rod + Pct(50, L),
                  z_bottom + rod + 2 * Pct(50, L), z_bottom + rod + 2 * Pct(50, L),
                  z_bottom + 2 * rod + 2 * Pct(50, L) >>]

\* create_spring_trace with a coil length that is never negative.
create_spring_trace_clamped_coil(x_center, z_bottom, z_top, L0) ==
    LET rod == Pct(15, L0)
        width == PlotPerMetre \div 10
        L == Max2(0, (z_top - z_bottom) - 2 * rod)
    IN  [x |-> << x_center, x_center,
                  x_center + width, x_center - width,
                  x_center + width, x_center - width,
                  x_center, x_center >>,
         z |-> << z_bottom, z_bottom + rod, z_bottom + rod,
                  z_bottom + rod + Pct(50, L), z_bottom + rod + Pct(50, L),
                  z_bottom + rod + 2 * Pct(50, L), z_bottom + rod + 2 * Pct(50, L),
                  z_bottom + 2 * rod + 2 * Pct(50, L) >>]

\* create_spring_trace(x_center, z_bottom, z_top, L0, width=0.1)
create_spring_trace(x_center, z_bottom, z_top, L0) ==
    LET rod_pct == 15
        spring_pct == 50
        width == PlotPerMetre \div 10
        L == (z_top - z_bottom) - 2 * Pct(rod_pct, L0)
    IN  [x |-> << x_center, x_center,
                  x_center + width, x_center - width,
                  x_center + width, x_center - width,
                  x_center, x_center >>,
         z |-> << z_bottom,
                  z_bottom + Pct(rod_pct, L0),
                  z_bottom + Pct(rod_pct, L0),
                  z_bottom + Pct(rod_pct, L0) + Pct(spring_pct, L),
                  z_bottom + Pct(rod_pct, L0) + Pct(spring_pct, L),
                  z_bottom + Pct(rod_pct, L0) + 2 * Pct(spring_pct, L),
                  z_bottom + Pct(rod_pct, L0) + 2 * Pct(spring_pct, L),
                  z_bottom + 2 * Pct(rod_pct, L0) + 2 * Pct(spring_pct, L) >>]

\* create_damper_traces with the piston drawn as its centre point only.
create_damper_traces_point_piston(x_center, z_bottom, z_top, L0) ==
    LET rod_lower_pct == 10
        rod_upper_pct == 40
        cyl_pct == 40
        w == (5 * PlotPerMetre) \div 100
    IN  << [x |-> << x_center, x_center >>,
            z |-> << z_bottom, z_bottom + Pct(rod_lower_pct, L0) >>],
           [x |-> << x_center - w, x_center - w, x_center + w, x_center + w >>,
            z |-> << z_bottom + Pct(rod_lower_pct, L0) + Pct(cyl_pct, L0),
                     z_bottom + Pct(rod_lower_pct, L0),
                     z_bottom + Pct(rod_lower_pct, L0),
                     z_bottom + Pct(rod_lower_pct, L0) + Pct(cyl_pct, L0) >>],
           [x |-> << x_center, x_center >>,
            z |-> << z_top, z_top - Pct(rod_upper_pct, L0) >>],
           [x |-> << x_center >>, z |-> << z_top - Pct(rod_upper_pct, L0) >>] >>

\* create_damper_traces(x_center, z_bottom, z_top, L0): lower rod, cylinder,
\* upper rod, piston.
create_damper_traces(x_center, z_bottom, z_top, L0) ==
    LET rod_lower_pct == 10
        rod_upper_pct == 40
        cyl_pct == 40
        w == (5 * PlotPerMetre) \div 100
    IN  << [x |-> << x_center, x_center >>,
            z |-> << z_bottom, z_bottom + Pct(rod_lower_pct, L0) >>],
           [x |-> << x_center - w, x_center - w, x_center + w, x_center + w >>,
            z |-> << z_bottom + Pct(rod_lower_pct, L0) + Pct(cyl_pct, L0),
                     z_bottom + Pct(rod_lower_pct, L0),
                     z_bottom + Pct(rod_lower_pct, L0),
                     z_bottom + Pct(rod_lower_pct, L0) + Pct(cyl_pct, L0) >>],
           [x |-> << x_center, x_center >>,
            z |-> << z_top, z_top - Pct(rod_upper_pct, L0) >>],
           [x |-> << x_center - Pct(80, w), x_center + Pct(80, w) >>,
            z |-> << z_top - Pct(rod_upper_pct, L0), z_top - Pct(rod_upper_pct, L0) >>] >>

\* l_win = 2, the window length of create_animation_frame, in metres.
l_win == 2

\* The x of the flat points added before and after the road profile, in metres.
SentinelLow == -10

SentinelHigh == 100

\* RoadView on the stored profile alone, without the sentinel points.
RoadViewNoSentinels(road_x, road_z, x_inst) ==
    LET x_min == x_inst - l_win * PlotPerMetre
        x_max == x_inst + l_win * PlotPerMetre
        mask == [k \in 1..Len(road_x) |->
                    P(road_x[k]) >= x_min /\ P(road_x[k]) <= x_max]
    IN  IF \E k \in 1..Len(mask) : mask[k]
        THEN LET idx_start == Max2(0, FirstTrue(mask) - 2)
                 idx_end == Min2(Len(road_x), LastTrue(mask) + 1)
             IN  [x |-> SubSeq(PSeq(road_x), idx_start + 1, idx_end),
                  z |-> SubSeq(PSeq(road_z), idx_start + 1, idx_end)]
        ELSE [x |-> << x_min, x_max >>, z |-> << 0, 0 >>]

\* RoadView without the point added on each side of the masked points.
RoadViewNoGuard(road_x, road_z, x_inst) ==
    LET x_min == x_inst - l_win * PlotPerMetre
        x_max == x_inst + l_win * PlotPerMetre
        road_x_extended == << SentinelLow * PlotPerMetre >> \o PSeq(road_x)
                               \o << SentinelHigh * PlotPerMetre >>
        road_z_extended == << 0 >> \o PSeq(road_z) \o << 0 >>
        mask == [k \in 1..Len(road_x_extended) |->
                    road_x_extended[k] >= x_min /\ road_x_extended[k] <= x_max]
    IN  IF \E k \in 1..Len(mask) : mask[k]
        THEN [x |-> SubSeq(road_x_extended, FirstTrue(mask), LastTrue(mask)),
              z |-> SubSeq(road_z_extended, FirstTrue(mask), LastTrue(mask))]
        ELSE [x |-> << x_min, x_max >>, z |-> << 0, 0 >>]

\* The road section create_animation_frame draws for the car at x_inst.
RoadView(road_x, road_z, x_inst) ==
    LET x_min == x_inst - l_win * PlotPerMetre
        x_max == x_inst + l_win * PlotPerMetre
        road_x_extended == << SentinelLow * PlotPerMetre >> \o PSeq(road_x)
                               \o << SentinelHigh * PlotPerMetre >>
        road_z_extended == << 0 >> \o PSeq(road_z) \o << 0 >>
        mask == [k \in 1..Len(road_x_extended) |->
                    road_x_extended[k] >= x_min /\ road_x_extended[k] <= x_max]
    IN  IF \E k \in 1..Len(mask) : mask[k]
        THEN LET idx_first == FirstTrue(mask) - 1
                 idx_last == LastTrue(mask) - 1
                 idx_start == Max2(0, idx_first - 1)
                 idx_end == Min2(Len(road_x_extended), idx_last + 2)
             IN  [x |-> SubSeq(road_x_extended, idx_start + 1, idx_end),
                  z |-> SubSeq(road_z_extended, idx_start + 1, idx_end)]
        ELSE [x |-> << x_min, x_max >>, z |-> << 0, 0 >>]

\* The closed ring of a mass box of height h whose lower edge is at z.
MassRing(x_inst, z, width, h) ==
    [x |-> << x_inst - width \div 2, x_inst + width \div 2,
              x_inst + width \div 2, x_inst - width \div 2,
              x_inst - width \div 2 >>,
     z |-> << z, z, z + h, z + h, z >>]

\* The value of a frame that was not produced.
NoFrame ==
    [title |-> 0, xrange |-> << >>, road |-> [x |-> << >>, z |-> << >>],
     sprung |-> [x |-> << >>, z |-> << >>], unsprung |-> [x |-> << >>, z |-> << >>],
     tire_spring_color |-> << >>, tire_spring |-> [x |-> << >>, z |-> << >>],
     susp_spring |-> [x |-> << >>, z |-> << >>], damper |-> << >>, contact |-> << >>]

\* create_animation_frame(result, frame_idx).  result.lon[i] and the other
\* subscripts follow Python: a negative i counts from the end, and an i
\* outside [-N, N) raises IndexError.
create_animation_frame(result, frame_idx) ==
    LET N == Len(result.lon)
    IN  IF frame_idx >= N \/ frame_idx < -N
        THEN [raised |-> "IndexError", fig |-> NoFrame]
        ELSE
        LET i == IF frame_idx < 0 THEN N + frame_idx + 1 ELSE frame_idx + 1
            x_inst == P(result.lon[i])
            z_s == P(result.z_s[i])
            z_u == P(result.z_u[i])
            u == P(result.u[i])
            off == (2 * PlotPerMetre) \div 10
        IN  [raised |-> "none",
             fig |->
               [title |-> result.time[i],
                xrange |-> << x_inst - (l_win * PlotPerMetre) \div 2,
                              x_inst + (l_win * PlotPerMetre) \div 2 >>,
                road |-> RoadView(result.road_x, result.road_z, x_inst),
                sprung |-> MassRing(x_inst, z_s, P(result.a), P(result.h_s)),
                unsprung |-> MassRing(x_inst, z_u, P(result.a), P(result.h_u)),
                tire_spring_color |-> get_spring_color(result.Kt),
                tire_spring |-> create_spring_trace(x_inst, u, z_u, P(result.L0_u)),
                susp_spring |-> create_spring_trace(x_inst - off, z_u + P(result.h_u),
                                                    z_s, P(result.L0_s)),
                damper |-> create_damper_traces(x_inst + off, z_u + P(result.h_u),
                                                z_s, P(result.L0_s)),
                contact |-> << x_inst, u >>]]

\* An optional value: << >> is None (null), << v >> is the value v.
None == << >>

Some(v) == << v >>

\* The two marker traces of the displacement plot at 1-based sample k.
MarkerTraces(time, z_s, z_u, k) ==
    << [x |-> << time[k] >>, y |-> << z_s[k] >>, mode |-> "markers"],
       [x |-> << time[k] >>, y |-> << z_u[k] >>, mode |-> "markers"] >>

\* create_displacement_plot with only the upper test on the index: a negative
\* index then subscripts from the end, and one below -len(time) raises.
create_displacement_plot_upper_only(result, current_time_idx) ==
    LET curves == << [x |-> result.time, y |-> result.z_s, mode |-> "lines"],
                     [x |-> result.time, y |-> result.z_u, mode |-> "lines"] >>
        N == Len(result.time)
    IN  IF current_time_idx # None /\ current_time_idx[1] < N
        THEN IF current_time_idx[1] < -N THEN << "IndexError" >>
             ELSE curves \o MarkerTraces(result.time, result.z_s, result.z_u,
                                         IF current_time_idx[1] < 0
                                         THEN N + current_time_idx[1] + 1
                                         ELSE current_time_idx[1] + 1)
        ELSE curves

\* create_displacement_plot(result, current_time_idx): the traces of the figure.
create_displacement_plot(result, current_time_idx) ==
    LET curves == << [x |-> result.time, y |-> result.z_s, mode |-> "lines"],
                     [x |-> result.time, y |-> result.z_u, mode |-> "lines"] >>
    IN  IF /\ current_time_idx # None
           /\ 0 <= current_time_idx[1]
           /\ current_time_idx[1] < Len(result.time)
        THEN curves \o MarkerTraces(result.time, result.z_s, result.z_u,
                                    current_time_idx[1] + 1)
        ELSE curves

\* arr.tolist(): the list of the items of the array, in order.
tolist(arr) == SubSeq(arr, 1, Len(arr))

\* np.array(list): the array of the items of the list, in order.
np_array(list) == SubSeq(list, 1, Len(list))

\* serialize_result(result): the dict kept in the simulation-data store.
serialize_result(res) ==
    [time |-> tolist(res.time), z_s |-> tolist(res.z_s),
     z_u |-> tolist(res.z_u), u |-> tolist(res.u),
     lon |-> tolist(res.lon),
     road_x |-> tolist(res.road_x), road_z |-> tolist(res.road_z),
     L0_s |-> res.L0_s, L0_u |-> res.L0_u,
     h_s |-> res.h_s, h_u |-> res.h_u, a |-> res.a, Kt |-> res.Kt]

\* deserialize_result with the two displacement sequences exchanged.
deserialize_result_swapped(data) ==
    [time |-> np_array(data.time), z_s |-> np_array(data.z_u),
     z_u |-> np_array(data.z_s), u |-> np_array(data.u),
     lon |-> np_array(data.lon),
     road_x |-> np_array(data.road_x), road_z |-> np_array(data.road_z),
     L0_s |-> data.L0_s, L0_u |-> data.L0_u,
     h_s |-> data.h_s, h_u |-> data.h_u, a |-> data.a, Kt |-> data.Kt]

\* deserialize_result(data): the SimulationResult rebuilt from the dict.
deserialize_result(data) ==
    [time |-> np_array(data.time), z_s |-> np_array(data.z_s),
     z_u |-> np_array(data.z_u), u |-> np_array(data.u),
     lon |-> np_array(data.lon),
     road_x |-> np_array(data.road_x), road_z |-> np_array(data.road_z),
     L0_s |-> data.L0_s, L0_u |-> data.L0_u,
     h_s |-> data.h_s, h_u |-> data.h_u, a |-> data.a, Kt |-> data.Kt]

\* The clientside callback that puts the marker on the displacement graph:
\* its return value, no_update or the figure's traces.
displacement_marker_callback(frame_idx, base_fig_data, sim_data) ==
    IF base_fig_data = None \/ sim_data = None \/ frame_idx = None
    THEN [no_update |-> TRUE, fig |-> << >>]
    ELSE LET fig == base_fig_data[1]
             data == sim_data[1]
         IN  [no_update |-> FALSE,
              fig |-> IF frame_idx[1] >= 0 /\ frame_idx[1] < Len(data.time)
                      THEN fig \o MarkerTraces(data.time, data.z_s, data.z_u,
                                               frame_idx[1] + 1)
                      ELSE fig]

\* ------------------------------------------------------------------ inputs

\* SimulationParams(): the defaults of the dataclass (vel = 2.0 m/s).
DefaultParams ==
    [M |-> 1500, m |-> 150, Ks |-> 48000, Cs |-> 1000, Kt |-> 200000, vel |-> 20]

\* The defaults at 60 m/s, a run of six samples: the parameter the masses,
\* stiffnesses and damping are varied around.
SweepParams == [DefaultParams EXCEPT !.vel = 600]

MSet == {-1500, 0, 1000}

mSet == {-150, 0, 100}

KsSet == {-48000, 0, 10000, 100000}

CsSet == {-1000, 0, 100, 5000}

\* The tire stiffnesses drawn are -25000, 0, 25000, ... : MaxKtSteps of them
\* from 0 on, reaching past both ends of the colour scale.
MaxKtSteps == 22

KtSet == {25000 * (k - 1) : k \in 0..MaxKtSteps}

\* Speeds in 0.1 m/s; each positive one divides xF, so tF is exact.
VelSet == {-20, 0, 20, 30, 50, 100, 192, 375, 600, 1600, 1875, 2000, 4000, 6000}

ParamsSet ==
    {[SweepParams EXCEPT !.M = v] : v \in MSet}
    \cup {[SweepParams EXCEPT !.m = v] : v \in mSet}
    \cup {[SweepParams EXCEPT !.Ks = v] : v \in KsSet}
    \cup {[SweepParams EXCEPT !.Cs = v] : v \in CsSet}
    \cup {[SweepParams EXCEPT !.Kt = v] : v \in KtSet}
    \cup {[DefaultParams EXCEPT !.vel = v] : v \in VelSet}

\* ---------------------------------------------------------------- playback

\* The two applications: src/app.py paces the animation by the browser's
\* clock, src/python/app.py advances one frame for each interval tick.
Variants == {"app", "python_app"}

\* The positions of the four sliders at a start click: the defaults of the
\* Ks, Cs and Kt sliders, the vehicle speed at 2.0 m/s and at 3.0 m/s.
SliderSettings == {DefaultParams, [DefaultParams EXCEPT !.vel = 30]}

\* The animation-start-time store: null, the -1 that asks the browser to take
\* the time of its next tick, or a time in ms kept as an exact quotient.
StartNull == [tag |-> "null", at |-> Rat(0, 1)]

StartInit == [tag |-> "init", at |-> Rat(0, 1)]

StartAt(q) == [tag |-> "at", at |-> q]

\* The video speed selector's values 0.25, 0.5, 1 and 2, in quarters.
SpeedOne == 4

SpeedOptions == {1, 2, 4, 8}

\* The component properties of the layout as the page is loaded.  The keys
\* are the component ids; max and value are those of the time slider,
\* interval_disabled is the disabled property of the animation interval, and
\* player_controls and displacement_content the display and visibility of
\* the two styles.
Layout ==
    [simulation_data |-> None,
     frame_index |-> 0,
     is_running |-> FALSE,
     first_run |-> TRUE,
     animation_start_time |-> StartNull,
     animation_duration_ms |-> 3000,
     base_duration_ms |-> 3000,
     interval_disabled |-> TRUE,
     slider_max |-> 100,
     slider_value |-> 0,
     player_controls |-> "none",
     displacement_content |-> "visible",
     video_speed |-> SpeedOne]

\* A callback's return value: the outputs it sets, by key.  An output that
\* is no_update has no key; NoUpdate is the return with no_update throughout.
NoUpdate == << >>

\* result.time[-1] * 1000: the run's duration in ms.
BaseDurationMs(time) == (time[Len(time)] * 1000) \div TimePerSecond

\* serialize_result(run_simulation(params)) for each position of the sliders:
\* run_simulation reads its argument only, so the dict is the same at every
\* click.
SimulationRuns ==
    {[sliders |-> e[1], data |-> serialize_result(e[2].ret)] :
        e \in {<<p, run_simulation(p)>> : p \in SliderSettings}}

SimulationData(p) == (CHOOSE e \in SimulationRuns : e.sliders = p).data

\* start_simulation of src/app.py for the slider values p: the outputs the
\* playback callbacks read.  The frame and figure stores, the status line
\* and the placeholder class are written too; no playback callback that
\* writes a store reads them.
start_simulation(p) ==
    LET data == SimulationData(p)
        num_frames == Len(data.time)
        base_duration_ms == BaseDurationMs(data.time)
    IN  [simulation_data |-> Some(data),
         base_duration_ms |-> base_duration_ms,
         animation_duration_ms |-> base_duration_ms,
         animation_start_time |-> StartInit,
         frame_index |-> 0,
         is_running |-> TRUE,
         interval_disabled |-> FALSE,
         displacement_content |-> "hidden",
         slider_max |-> num_frames - 1,
         slider_value |-> 0,
         player_controls |-> "none",
         first_run |-> TRUE,
         video_speed |-> SpeedOne]

\* start_simulation of src/python/app.py.
start_simulation_stepped(p) ==
    [simulation_data |-> Some(SimulationData(p)),
     frame_index |-> 0,
     is_running |-> TRUE,
     interval_disabled |-> FALSE]

\* The start_simulation of the application v.
StartSimulationReturn(v, p) ==
    IF v = "app" THEN start_simulation(p) ELSE start_simulation_stepped(p)

\* Math.floor(Math.min(elapsed / duration_ms, 1.0) * (num_frames - 1)) for
\* elapsed = now - start_time, start_time the quotient s.
FrameAt(now, s, duration_ms, num_frames) ==
    LET en == now * s.d - s.n
    IN  IF en >= duration_ms * s.d THEN num_frames - 1
        ELSE (en * (num_frames - 1)) \div (s.d * duration_ms)

\* The clientside callback of the animation interval in src/app.py: its
\* return value when Date.now() is now.
advance_frame(now, start_time, duration_ms, sim_data, is_running) ==
    IF ~is_running \/ sim_data = None THEN NoUpdate
    ELSE LET num_frames == Len(sim_data[1].time)
             started == IF start_time.tag = "at" THEN start_time
                        ELSE StartAt(Rat(now, 1))
             frame == FrameAt(now, started.at, duration_ms, num_frames)
         IN  IF frame >= num_frames - 1
             THEN [frame_index |-> num_frames - 1,
                   animation_start_time |-> started,
                   is_running |-> FALSE,
                   interval_disabled |-> TRUE,
                   slider_value |-> num_frames - 1]
             ELSE [frame_index |-> frame,
                   animation_start_time |-> started,
                   is_running |-> TRUE,
                   interval_disabled |-> FALSE,
                   slider_value |-> frame]

\* update_frame_index of src/python/app.py.
update_frame_index(current_frame, sim_data, is_running) ==
    IF ~is_running \/ sim_data = None THEN NoUpdate
    ELSE LET num_frames == Len(sim_data[1].time)
             next_frame == current_frame + 1
         IN  IF next_frame >= num_frames
             THEN [frame_index |-> num_frames - 1, is_running |-> FALSE,
                   interval_disabled |-> TRUE]
             ELSE [frame_index |-> next_frame, is_running |-> TRUE,
                   interval_disabled |-> FALSE]

\* update_controls_visibility that shows the controls in the first playback.
update_controls_visibility_shown(is_running, is_first_run) ==
    IF is_first_run /\ is_running
    THEN [displacement_content |-> "hidden", player_controls |-> "flex"]
    ELSE IF is_first_run /\ ~is_running
    THEN [displacement_content |-> "visible", player_controls |-> "flex",
          first_run |-> FALSE]
    ELSE [displacement_content |-> "visible", player_controls |-> "flex"]

\* update_controls_visibility(is_running, is_first_run)
update_controls_visibility(is_running, is_first_run) ==
    IF is_first_run /\ is_running
    THEN [displacement_content |-> "hidden", player_controls |-> "none"]
    ELSE IF is_first_run /\ ~is_running
    THEN [displacement_content |-> "visible", player_controls |-> "flex",
          first_run |-> FALSE]
    ELSE [displacement_content |-> "visible", player_controls |-> "flex"]

\* on_slider_change that tests is_running at the slider's left end only.
on_slider_change_while_running(slider_value, sim_data, is_running) ==
    IF sim_data = None THEN NoUpdate
    ELSE IF is_running /\ slider_value = 0 THEN NoUpdate
    ELSE [frame_index |-> slider_value]

\* on_slider_change(slider_value, sim_data, is_running); the slider always
\* holds a value.
on_slider_change(slider_value, sim_data, is_running) ==
    IF sim_data = None THEN NoUpdate
    ELSE IF is_running THEN NoUpdate
    ELSE [frame_index |-> slider_value]

\* progress * duration_ms for progress = frame_idx / (num_frames - 1), taken
\* from the server's time in ms.
StartTimeFor(server_now, frame_idx, duration_ms, num_frames) ==
    StartAt(Lowest(Rat(server_now * (num_frames - 1) - frame_idx * duration_ms,
                       num_frames - 1)))

\* on_speed_change(speed_factor, base_duration_ms, frame_idx, sim_data,
\* is_running), time.time() * 1000 being server_now.  The speed is in quarters;
\* the durations the runs give are multiples of what the speeds divide by.
on_speed_change(speed_factor, base_duration_ms, frame_idx, sim_data, is_running, server_now) ==
    LET new_duration_ms == (base_duration_ms * SpeedOne) \div speed_factor
    IN  IF is_running /\ sim_data # None /\ Len(sim_data[1].time) > 1
        THEN [animation_duration_ms |-> new_duration_ms,
              animation_start_time |->
                  StartTimeFor(server_now, frame_idx, new_duration_ms,
                               Len(sim_data[1].time))]
        ELSE [animation_duration_ms |-> new_duration_ms]

\* toggle_play_pause with the pause branch leaving the interval enabled.
toggle_play_pause_interval_kept(is_running, sim_data, frame_idx, duration_ms, server_now) ==
    IF sim_data = None THEN NoUpdate
    ELSE IF ~is_running
    THEN [is_running |-> TRUE, interval_disabled |-> FALSE,
          frame_index |-> 0, animation_start_time |-> StartInit]
    ELSE [is_running |-> FALSE, interval_disabled |-> FALSE]

\* toggle_play_pause(n_clicks, is_running, sim_data, frame_idx, duration_ms)
\* after a click, time.time() * 1000 being server_now.
toggle_play_pause(is_running, sim_data, frame_idx, duration_ms, server_now) ==
    IF sim_data = None THEN NoUpdate
    ELSE LET num_frames == Len(sim_data[1].time)
         IN  IF ~is_running
             THEN IF frame_idx >= num_frames - 1
                  THEN [is_running |-> TRUE, interval_disabled |-> FALSE,
                        frame_index |-> 0, animation_start_time |-> StartInit]
                  ELSE [is_running |-> TRUE, interval_disabled |-> FALSE,
                        animation_start_time |->
                            StartTimeFor(server_now, frame_idx, duration_ms,
                                         num_frames)]
             ELSE [is_running |-> FALSE, interval_disabled |-> TRUE]

\* ------------------------------------------------------------------- state

\* How far beyond the valid indices the index arguments range.
IdxMargin == 2

\* The index arguments tried on a result of N samples.
IdxSet(N) == (-(N + IdxMargin))..(N - 1 + IdxMargin)

\* No value of a plotting call is held.
NoCall == [fn |-> "none", arg |-> None, ret |-> None]

VARIABLES
    params,     \* the SimulationParams handed to run_simulation
    outcome,    \* "pending", "returned", or the exception run_simulation raised
    result,     \* the SimulationResult, once returned
    last,       \* the plotting call whose value is held: name, argument, return
    variant,    \* which of the two applications the browser has loaded
    browser,    \* the properties of the layout's components, by key
    in_flight,  \* the return values of server callbacks not yet delivered
    now,        \* the browser's Date.now(), in ms since the page was loaded
    skew,       \* the server's clock less the browser's, in ms
    clicks      \* how many times the user has clicked or dragged a control

vars ==
    <<params, outcome, result, last, variant, browser, in_flight, now, skew, clicks>>

pvars == <<variant, browser, in_flight, now, skew, clicks>>

server == <<params, outcome, result, last>>

Init ==
    /\ params \in ParamsSet
    /\ outcome = "pending"
    /\ result = NoResult
    /\ last = NoCall
    /\ variant = "app"
    /\ browser = Layout
    /\ in_flight = {}
    /\ now = 0
    /\ skew = 0
    /\ clicks = 0

\* A call that starts from what the call before it left behind: the masses
\* begin at the displacement the held result ended with.
call_run_simulation_carrying_state(p) ==
    LET r == run_simulation(p)
        N == Len(result.z_u)
    IN  IF r.raised = "none" /\ N > 0
        THEN [r EXCEPT !.ret.z_u = [i \in 1..Len(r.ret.z_u) |->
                                       r.ret.z_u[i] + result.z_u[N] - result.L0_u],
                       !.ret.z_s = [i \in 1..Len(r.ret.z_s) |->
                                       r.ret.z_s[i] + result.z_s[N]
                                         - result.L0_u - result.L0_s]]
        ELSE r

\* result = run_simulation(params) as start_simulation makes the call: the
\* function reads its argument and nothing else, and keeps nothing.
call_run_simulation(p) == run_simulation(p)

RunSimulation ==
    /\ outcome = "pending"
    /\ last = NoCall
    /\ LET r == call_run_simulation(params)
       IN  /\ outcome' = IF r.raised = "none" THEN "returned" ELSE r.raised
           /\ result' = r.ret
    /\ UNCHANGED <<params, last>>
    /\ UNCHANGED pvars

\* A frame call that adds the sentinel points to the road profile of the
\* result itself, instead of to a copy of it.
CreateAnimationFrameExtendingInPlace ==
    /\ outcome = "returned"
    /\ last = NoCall
    /\ \E i \in IdxSet(Len(result.time)) :
         last' = [fn |-> "create_animation_frame", arg |-> Some(i),
                  ret |-> create_animation_frame(result, i)]
    /\ result' = [result EXCEPT
                     !.road_x = << SentinelLow * LenPerMetre >> \o @
                                   \o << SentinelHigh * LenPerMetre >>,
                     !.road_z = << 0 >> \o @ \o << 0 >>]
    /\ UNCHANGED <<params, outcome>>
    /\ UNCHANGED pvars

CreateAnimationFrame ==
    /\ outcome = "returned"
    /\ last = NoCall
    /\ \E i \in IdxSet(Len(result.time)) :
         last' = [fn |-> "create_animation_frame", arg |-> Some(i),
                  ret |-> create_animation_frame(result, i)]
    /\ UNCHANGED <<params, outcome, result>>
    /\ UNCHANGED pvars

CreateDisplacementPlot ==
    /\ outcome = "returned"
    /\ last = NoCall
    /\ \E idx \in {None} \cup {Some(i) : i \in IdxSet(Len(result.time))} :
         last' = [fn |-> "create_displacement_plot", arg |-> idx,
                  ret |-> create_displacement_plot(result, idx)]
    /\ UNCHANGED <<params, outcome, result>>
    /\ UNCHANGED pvars

\* The stores the marker callback reads: empty until a run has filled them.
BaseFigureStore ==
    IF outcome = "returned" THEN Some(create_displacement_plot(result, None)) ELSE None

SimulationDataStore ==
    IF outcome = "returned" THEN Some(serialize_result(result)) ELSE None

DisplacementMarkerCallback ==
    /\ last = NoCall
    /\ \E base_fig_data \in {BaseFigureStore}, sim_data \in {SimulationDataStore} :
         \E idx \in {None} \cup {Some(i) : i \in IdxSet(Len(result.time))} :
           last' = [fn |-> "displacement_marker_callback", arg |-> idx,
                    ret |-> displacement_marker_callback(idx, base_fig_data, sim_data)]
    /\ UNCHANGED <<params, outcome, result>>
    /\ UNCHANGED pvars

GetSpringColor ==
    /\ last = NoCall
    /\ \E Kt \in KtSet :
         last' = [fn |-> "get_spring_color", arg |-> Some(Kt),
                  ret |-> get_spring_color(Kt)]
    /\ UNCHANGED <<params, outcome, result>>
    /\ UNCHANGED pvars

\* The parameters of the calls made between two calls for the same params.
OtherParams == {SweepParams, [DefaultParams EXCEPT !.vel = 375]}

\* A later call of run_simulation, for the params of the first call or for
\* other ones, after any number of calls of any kind.
RunSimulationAgain ==
    /\ outcome # "pending"
    /\ last = NoCall
    /\ \E p \in {params} \cup OtherParams :
         last' = [fn |-> "run_simulation", arg |-> Some(p),
                  ret |-> call_run_simulation(p)]
    /\ UNCHANGED <<params, outcome, result>>
    /\ UNCHANGED pvars

\* Spring arguments, in centimetres: centres, heights of the two ends and
\* natural lengths, stretched, at rest, collapsed and upside down.
CentreSet == {0, 300}

BottomSet == {0, 10, 30}

TopSet == {0, 5, 10, 19, 30, 39, 40, 70}

NaturalLengthSet == {-30, 0, 30, 40}

Centimetres(c) == c * (PlotPerMetre \div 100)

\* A call of create_spring_trace with arguments of its own.
CreateSpringTrace ==
    /\ last = NoCall
    /\ \E xc \in CentreSet, zb \in BottomSet, zt \in TopSet, L0 \in NaturalLengthSet :
         last' = [fn |-> "create_spring_trace",
                  arg |-> Some([x_center |-> Centimetres(xc),
                                z_bottom |-> Centimetres(zb),
                                z_top |-> Centimetres(zt),
                                L0 |-> Centimetres(L0)]),
                  ret |-> create_spring_trace(Centimetres(xc), Centimetres(zb),
                                              Centimetres(zt), Centimetres(L0))]
    /\ UNCHANGED <<params, outcome, result>>
    /\ UNCHANGED pvars

\* run_simulation builds the state-space matrices for its params, once the
\* time axis is made.
BuildStateSpace ==
    /\ last = NoCall
    /\ params.vel > 0
    /\ last' = [fn |-> "StateSpace", arg |-> Some(params), ret |-> StateSpace(params)]
    /\ UNCHANGED <<params, outcome, result>>
    /\ UNCHANGED pvars

\* A server-side callback rebuilds the result from the simulation-data store.
DeserializeResult ==
    /\ outcome = "returned"
    /\ last = NoCall
    /\ last' = [fn |-> "deserialize_result", arg |-> SimulationDataStore,
                ret |-> deserialize_result(SimulationDataStore[1])]
    /\ UNCHANGED <<params, outcome, result>>
    /\ UNCHANGED pvars

\* The caller is done with the value of the latest call; the next call may
\* be any of them, with any argument.
Discard ==
    /\ last # NoCall
    /\ last' = NoCall
    /\ UNCHANGED <<params, outcome, result>>
    /\ UNCHANGED pvars

Next ==
    \/ RunSimulation
    \/ CreateAnimationFrame
    \/ CreateDisplacementPlot
    \/ DisplacementMarkerCallback
    \/ GetSpringColor
    \/ DeserializeResult
    \/ RunSimulationAgain
    \/ CreateSpringTrace
    \/ BuildStateSpace
    \/ Discard

Spec == Init /\ [][Next]_vars

\* ------------------------------------------------------- playback machine

\* The browser's clock moves in steps of this many ms.
ClockStep == 1000

\* The clock steps taken after the page is loaded.
MaxClockSteps == 3

\* How far the server's clock is ahead of the browser's, in ms.
SkewSet == {0, ClockStep}

\* The callbacks the server has been asked for and has not answered yet.
MaxInFlight == 2

\* The clicks and drags of the user that are followed.
MaxClicks == 3

\* The positions a user drags the time slider to.
ScrubSet(max) == {0, max \div 2, max}

\* The component properties after the outputs of a callback are set.
Apply(b, outputs) ==
    [k \in DOMAIN b |-> IF k \in DOMAIN outputs THEN outputs[k] ELSE b[k]]

\* A call of a server callback: its name and the value it returns.
Call(callback, outputs) == [callback |-> callback, outputs |-> outputs]

\* The callbacks of src/app.py that have one of the properties just set as
\* an Input are called with the properties as they are then.
\* (src/python/app.py has two, which draw the figures.)
Triggered(v, b, keys, server_now) ==
    IF v # "app" THEN {}
    ELSE (IF "is_running" \in keys
          THEN {Call("update_controls_visibility",
                     update_controls_visibility(b.is_running, b.first_run))}
          ELSE {})
         \cup (IF "slider_value" \in keys
               THEN {Call("on_slider_change",
                          on_slider_change(b.slider_value, b.simulation_data,
                                           b.is_running))}
               ELSE {})
         \cup (IF "video_speed" \in keys
               THEN {Call("on_speed_change",
                          on_speed_change(b.video_speed, b.base_duration_ms,
                                          b.frame_index, b.simulation_data,
                                          b.is_running, server_now))}
               ELSE {})

\* The server is asked for the calls cs.  A call that returns no_update
\* throughout changes nothing when it is delivered and is not kept.  No
\* callback has two calls outstanding, and MaxInFlight calls are at most.
Outstanding(held, cs) ==
    held \cup {c \in cs : c.outputs # NoUpdate}

Ask(held, cs) ==
    /\ in_flight' = Outstanding(held, cs)
    /\ Cardinality(in_flight') <= MaxInFlight
    /\ \A c, d \in in_flight' : c.callback = d.callback => c = d

\* The user clicks or drags a control.
UserActs ==
    /\ clicks < MaxClicks
    /\ clicks' = clicks + 1

PlaybackInit ==
    /\ params = DefaultParams
    /\ outcome = "pending"
    /\ result = NoResult
    /\ last = NoCall
    /\ variant \in Variants
    /\ browser = Layout
    /\ in_flight = {}
    /\ now = 0
    /\ skew \in IF variant = "app" THEN SkewSet ELSE {0}
    /\ clicks = 0

\* A click on the start button: start_simulation is called with the values
\* of the sliders.
StartClick ==
    /\ UserActs
    /\ \E p \in SliderSettings : Ask(in_flight, {Call("start_simulation", StartSimulationReturn(variant, p))})
    /\ UNCHANGED <<variant, browser, now, skew>>
    /\ UNCHANGED server

\* The return value of a server callback reaches the browser: its outputs
\* are set and the callbacks they trigger are called.
Deliver ==
    /\ \E c \in in_flight :
         \E b \in {Apply(browser, c.outputs)} :
           /\ browser' = b
           /\ Ask(in_flight \ {c},
                  Triggered(variant, b, DOMAIN c.outputs, now + skew))
    /\ UNCHANGED <<variant, now, skew, clicks>>
    /\ UNCHANGED server

\* A tick of the animation interval in src/app.py: the clientside callback
\* runs in the browser and its outputs are set at once.
Tick ==
    /\ variant = "app"
    /\ ~browser.interval_disabled
    /\ \E outputs \in {advance_frame(now, browser.animation_start_time,
                                     browser.animation_duration_ms,
                                     browser.simulation_data,
                                     browser.is_running)} :
         \E b \in {Apply(browser, outputs)} :
           /\ browser' = b
           /\ Ask(in_flight, Triggered(variant, b, DOMAIN outputs, now + skew))
    /\ UNCHANGED <<variant, now, skew, clicks>>
    /\ UNCHANGED server

\* A tick of the animation interval in src/python/app.py: update_frame_index
\* is called with the stores as they are.
TickStepped ==
    /\ variant = "python_app"
    /\ ~browser.interval_disabled
    /\ Ask(in_flight,
           {Call("update_frame_index",
                 update_frame_index(browser.frame_index, browser.simulation_data,
                                    browser.is_running))})
    /\ UNCHANGED <<variant, browser, now, skew, clicks>>
    /\ UNCHANGED server

\* A click on the play/pause button, which the player controls show.
PlayPauseClick ==
    /\ UserActs
    /\ variant = "app"
    /\ browser.player_controls = "flex"
    /\ Ask(in_flight,
           {Call("toggle_play_pause",
                 toggle_play_pause(browser.is_running, browser.simulation_data,
                                   browser.frame_index,
                                   browser.animation_duration_ms, now + skew))})
    /\ UNCHANGED <<variant, browser, now, skew>>
    /\ UNCHANGED server

\* The user selects another video speed.
SpeedChange ==
    /\ UserActs
    /\ variant = "app"
    /\ browser.player_controls = "flex"
    /\ \E speed_factor \in SpeedOptions \ {browser.video_speed} :
         \E b \in {[browser EXCEPT !.video_speed = speed_factor]} :
           /\ browser' = b
           /\ Ask(in_flight, Triggered(variant, b, {"video_speed"}, now + skew))
    /\ UNCHANGED <<variant, now, skew>>
    /\ UNCHANGED server

\* The user drags the time slider.
SliderScrub ==
    /\ UserActs
    /\ variant = "app"
    /\ browser.player_controls = "flex"
    /\ \E slider_value \in ScrubSet(browser.slider_max) \ {browser.slider_value} :
         \E b \in {[browser EXCEPT !.slider_value = slider_value]} :
           /\ browser' = b
           /\ Ask(in_flight, Triggered(variant, b, {"slider_value"}, now + skew))
    /\ UNCHANGED <<variant, now, skew>>
    /\ UNCHANGED server

\* Time passes on both clocks.  (src/python/app.py reads neither.)
Elapse ==
    /\ variant = "app"
    /\ now < MaxClockSteps * ClockStep
    /\ now' = now + ClockStep
    /\ UNCHANGED <<variant, browser, in_flight, skew, clicks>>
    /\ UNCHANGED server

PlaybackNext ==
    \/ StartClick
    \/ Deliver
    \/ Tick
    \/ TickStepped
    \/ PlayPauseClick
    \/ SpeedChange
    \/ SliderScrub
    \/ Elapse

PlaybackSpec == PlaybackInit /\ [][PlaybackNext]_vars

\* -------------------------------------------------------------- properties

Returned == outcome = "returned"

\* The run has returned and no plotting call is held.  result and params do
\* not change afterwards, so what holds of them here holds in every later state.
Settled == Returned /\ last.fn = "none"

\* The preconditions the specification puts on SimulationParams.
ValidParams ==
    /\ params.M > 0
    /\ params.m > 0
    /\ params.Ks > 0
    /\ params.Kt > 0
    /\ params.vel > 0
    /\ params.Cs >= 0

StrictlyIncreasing(s) == \A k \in 1..(Len(s) - 1) : s[k] < s[k + 1]

Occurrences(s, v) == Cardinality({k \in 1..Len(s) : s[k] = v})

\* C1 as stated: for vel > 0 the number of samples of the result,
\* N = len(time), is round(tF * 60) with tF = 6.0 / vel.
C1_SamplesRounded ==
    (Settled /\ params.vel > 0) =>
        Len(result.time) = PyRound(xF * fR, params.vel * TimePerSecond)

\* C1, amended: for vel > 0 the number of samples of the result is tF * 60
\* truncated toward zero, tF = 6.0 / vel: N <= tF * 60 < N + 1.
C1_SamplesTruncated ==
    (Settled /\ params.vel > 0) =>
        LET N == Len(result.time)
        IN  /\ N * params.vel * TimePerSecond <= xF * fR
            /\ xF * fR < (N + 1) * params.vel * TimePerSecond

\* A run whose sample count is not the rounded one (tF * 60 has a fraction of
\* one half or more).
C1_Witness ==
    /\ Settled
    /\ params.vel > 0
    /\ Len(result.time) + 1 = PyRound(xF * fR, params.vel * TimePerSecond)

\* C2 as stated: for valid params, whatever the speed, run_simulation returns
\* a time sequence that is non-empty, starts at 0, is strictly increasing and
\* ends at 6.0 / vel, the last longitudinal position being 6.0.
C2_TimeAxis ==
    (ValidParams /\ outcome # "pending") =>
        /\ Returned
        /\ Len(result.time) > 0
        /\ result.time[1] = 0
        /\ StrictlyIncreasing(result.time)
        /\ result.time[Len(result.time)] * params.vel = xF
        /\ result.lon[Len(result.lon)] = xF

\* C3: the result starts at rest and stays there until the road input is
\* non-zero: at every sample i with u[k] = 0 for all k <= i, z_u[i] = L0_u = 0.3
\* and z_s[i] = L0_u + L0_s = 0.7; the first sample and every sample taken at
\* or before x = 1.1 are such samples.
C3_RestUntilInput ==
    Settled =>
        /\ L0_u * 10 = 3 * LenPerMetre
        /\ (L0_u + L0_s) * 10 = 7 * LenPerMetre
        /\ result.L0_u = L0_u
        /\ result.L0_s = L0_s
        /\ result.u[1] = 0
        /\ \A i \in 1..Len(result.time) :
               /\ (\A k \in 1..i : result.u[k] = 0) =>
                      /\ result.z_u[i] = L0_u
                      /\ result.z_s[i] = L0_u + L0_s
               /\ (10 * result.lon[i] <= 11 * LenPerMetre) =>
                      \A k \in 1..i : result.u[k] = 0

\* A run with several samples at rest before the bump, whose masses have left
\* their rest heights afterwards.
C3_Witness ==
    /\ Settled
    /\ \E i \in 2..Len(result.time) :
           /\ \A k \in 1..i : result.u[k] = 0
           /\ \E j \in (i + 1)..Len(result.time) :
                  /\ result.u[j] # 0
                  /\ result.z_u[j] # L0_u
                  /\ result.z_s[j] # L0_u + L0_s

\* C4 as stated: run_simulation with M, m, Ks, Kt or vel <= 0, or with Cs < 0,
\* ends with InvalidParameterError and returns no SimulationResult.
C4_InvalidRejected ==
    (~ValidParams /\ outcome # "pending") =>
        /\ outcome = "InvalidParameterError"
        /\ result = NoResult

\* C5 as stated: create_animation_frame(result, i) ends with an index error
\* for every i outside [0, len(result.time)), the negative ones included.
C5_IndexErrorOutsideRange ==
    (/\ last.fn = "create_animation_frame"
     /\ last.arg[1] \notin 0..(Len(result.time) - 1)) =>
        last.ret.raised = "IndexError"

\* The figure fig holds the two full curves of the result res and, exactly
\* when idx is an index of [0, len(time)), the marker pair at that sample.
CurvesAndMarker(fig, res, idx) ==
    LET N == Len(res.time)
    IN  /\ Len(fig) >= 2
        /\ fig[1] = [x |-> res.time, y |-> res.z_s, mode |-> "lines"]
        /\ fig[2] = [x |-> res.time, y |-> res.z_u, mode |-> "lines"]
        /\ IF idx # None /\ idx[1] >= 0 /\ idx[1] < N
           THEN /\ Len(fig) = 4
                /\ fig[3] = [x |-> << res.time[idx[1] + 1] >>,
                             y |-> << res.z_s[idx[1] + 1] >>, mode |-> "markers"]
                /\ fig[4] = [x |-> << res.time[idx[1] + 1] >>,
                             y |-> << res.z_u[idx[1] + 1] >>, mode |-> "markers"]
           ELSE Len(fig) = 2

\* C6: the displacement marker is there exactly when the index is inside
\* [0, len(time)): the marker pair is (time[i], z_s[i]), (time[i], z_u[i]) for
\* i in range; for i absent, negative or >= len(time) there is no marker and
\* no error, and the two full curves are as they were.  The clientside
\* callback leaves the graph alone when there is no index or no run.
C6_MarkerIffInRange ==
    /\ last.fn = "create_displacement_plot" =>
           CurvesAndMarker(last.ret, result, last.arg)
    /\ last.fn = "displacement_marker_callback" =>
           IF ~Returned \/ last.arg = None
           THEN last.ret.no_update
           ELSE /\ ~last.ret.no_update
                /\ CurvesAndMarker(last.ret.fig, result, last.arg)

\* A displacement plot drawn for an index in range, with its marker pair.
C6_Witness ==
    /\ last.fn = "create_displacement_plot"
    /\ last.arg # None
    /\ last.arg[1] > 0
    /\ last.arg[1] < Len(result.time)
    /\ Len(last.ret) = 4
    /\ last.ret[3].y # last.ret[4].y

\* C7: road_x is strictly increasing over its whole length; the abscissae 1.1
\* and 1.3 shared by two sections occur once each, and no point of a section
\* is at or beyond the first kept point of the next.
C7_RoadStrictlyIncreasing ==
    Settled =>
        LET rx == result.road_x
            n1 == Len(RoadX1)
            n2 == n1 + BumpPoints - 1
        IN  /\ StrictlyIncreasing(rx)
            /\ Len(rx) = n2 + Len(RoadX3) - 1
            /\ Occurrences([k \in 1..Len(rx) |-> 10 * rx[k]], 11 * LenPerMetre) = 1
            /\ Occurrences([k \in 1..Len(rx) |-> 10 * rx[k]], 13 * LenPerMetre) = 1
            /\ \A k \in 1..n1 : rx[k] = RoadX1[k] /\ rx[k] < rx[n1 + 1]
            /\ \A k \in (n1 + 1)..n2 : rx[k] = RoadX2[k - n1 + 1] /\ rx[k] < rx[n2 + 1]
            /\ \A k \in (n2 + 1)..Len(rx) : rx[k] = RoadX3[k - n2 + 1]

\* A returned profile with the leading flat ending at 1.1 and the bump ending
\* at 1.3.
C7_Witness ==
    /\ Settled
    /\ 10 * result.road_x[Len(RoadX1)] = 11 * LenPerMetre
    /\ 10 * result.road_x[Len(RoadX1) + BumpPoints - 1] = 13 * LenPerMetre
    /\ result.road_z[Len(RoadX1) + 1] > 0

\* The largest height of the profile rz.
MaxHeight(rz) == CHOOSE h \in {rz[k] : k \in 1..Len(rz)} : \A k \in 1..Len(rz) : rz[k] <= h

\* Flat, bump, flat: equal lengths, first point (0, 0), last point at height 0
\* and at or beyond xF, heights in [0, R], height 0 at x <= 1.1 and x >= 1.3,
\* and a point of positive height strictly inside (1.1, 1.3).
FlatBumpFlat(rx, rz) ==
    /\ Len(rx) = Len(rz)
    /\ rx[1] = 0 /\ rz[1] = 0
    /\ rz[Len(rz)] = 0
    /\ rx[Len(rx)] >= xF
    /\ \A k \in 1..Len(rz) :
           /\ 0 <= rz[k] /\ rz[k] <= R
           /\ (10 * rx[k] <= 11 * LenPerMetre \/ 10 * rx[k] >= 13 * LenPerMetre) => rz[k] = 0
    /\ \E k \in 1..Len(rz) :
           /\ 10 * rx[k] > 11 * LenPerMetre
           /\ 10 * rx[k] < 13 * LenPerMetre
           /\ rz[k] > 0

\* C8 as stated: the profile is flat, bump, flat, and its largest height is
\* the bump radius 0.10.
C8_MaxHeightIsRadius ==
    Settled =>
        /\ FlatBumpFlat(result.road_x, result.road_z)
        /\ MaxHeight(result.road_z) = R

\* C8, amended: the profile is flat, bump, flat, and its largest height is
\* below the bump radius, by less than a thousandth of it: the 50 points of
\* the bump straddle the apex, the two nearest at R * sin(24 pi / 49).
C8_MaxHeightBelowRadius ==
    Settled =>
        /\ FlatBumpFlat(result.road_x, result.road_z)
        /\ MaxHeight(result.road_z) < R
        /\ 1000 * (R - MaxHeight(result.road_z)) < R
        /\ MaxHeight(result.road_z) = (R * SinTh[BumpPoints \div 2]) \div TrigScale
        /\ Occurrences(result.road_z, MaxHeight(result.road_z)) = 2

\* A returned profile whose highest points are the two next to the apex.
C8_Witness ==
    /\ Settled
    /\ result.road_z[Len(RoadX1) + BumpPoints \div 2 - 1] = MaxHeight(result.road_z)
    /\ result.road_z[Len(RoadX1) + BumpPoints \div 2] = MaxHeight(result.road_z)
    /\ result.road_z[Len(RoadX1) + BumpPoints \div 2 + 1] < MaxHeight(result.road_z)

\* C9: at every sample lon[i] = vel * time[i], and u[i] is the piecewise-linear
\* interpolation of (road_x, road_z) at lon[i]: the profile height at a profile
\* abscissa, on the chord between the two bracketing points otherwise (so
\* between their heights), the first or last height outside the profile's
\* domain; u[i] = 0 when lon[i] <= 1.1 or lon[i] >= 1.3, and 0 <= u[i] <= 0.10.
C9_RoadInput ==
    Settled =>
        LET rx == result.road_x
            rz == result.road_z
            n == Len(rx)
        IN  \A i \in 1..Len(result.time) :
                LET x == result.lon[i]
                    ui == result.u[i]
                IN  /\ x = params.vel * result.time[i]
                    /\ \A j \in 1..n : (x = rx[j]) => ui = rz[j]
                    /\ \A j \in 1..(n - 1) :
                           (rx[j] < x /\ x < rx[j + 1]) =>
                               /\ Min2(rz[j], rz[j + 1]) <= ui
                               /\ ui <= Max2(rz[j], rz[j + 1])
                               /\ Abs((ui - rz[j]) * (rx[j + 1] - rx[j])
                                      - (rz[j + 1] - rz[j]) * (x - rx[j]))
                                    < rx[j + 1] - rx[j]
                    /\ (x < rx[1]) => ui = rz[1]
                    /\ (x > rx[n]) => ui = rz[n]
                    /\ interp(rx[1] - 1 - x, rx, rz) = rz[1]
                    /\ interp(rx[n] + 1 + x, rx, rz) = rz[n]
                    /\ (10 * x <= 11 * LenPerMetre \/ 10 * x >= 13 * LenPerMetre) => ui = 0
                    /\ 0 <= ui /\ ui <= R

\* A run with a sample on the rising and one on the falling side of the bump,
\* each strictly between two profile points and strictly between their heights.
C9_Witness ==
    /\ Settled
    /\ \E i \in 1..Len(result.time) : \E j \in 1..(Len(result.road_x) - 1) :
           /\ result.road_x[j] < result.lon[i] /\ result.lon[i] < result.road_x[j + 1]
           /\ result.road_z[j] < result.u[i] /\ result.u[i] < result.road_z[j + 1]
    /\ \E i \in 1..Len(result.time) : \E j \in 1..(Len(result.road_x) - 1) :
           /\ result.road_x[j] < result.lon[i] /\ result.lon[i] < result.road_x[j + 1]
           /\ result.road_z[j] > result.u[i] /\ result.u[i] > result.road_z[j + 1]

\* C10: get_spring_color gives (255, 0, 0) at Kt = 50000 and (0, 0, 255) at
\* Kt = 500000, the colour of 50000 below it and of 500000 above it; the red
\* channel does not increase and the blue one does not decrease with Kt, the
\* green one is 0, and Kt = 275000 gives (128, 0, 127) to within 1 a channel.
C10_SpringColor ==
    last.fn = "get_spring_color" =>
        LET Kt == last.arg[1]
            c == last.ret
        IN  /\ Len(c) = 3
            /\ c[2] = 0
            /\ (Kt = 50000) => c = << 255, 0, 0 >>
            /\ (Kt = 500000) => c = << 0, 0, 255 >>
            /\ (Kt < 50000) => c = get_spring_color(50000)
            /\ (Kt > 500000) => c = get_spring_color(500000)
            /\ \A K2 \in KtSet :
                   (Kt <= K2) => /\ get_spring_color(K2)[1] <= c[1]
                                 /\ get_spring_color(K2)[3] >= c[3]
            /\ (Kt = 275000) => /\ Abs(c[1] - 128) <= 1
                                /\ Abs(c[3] - 127) <= 1

\* The colour of the midpoint stiffness.
C10_Witness ==
    /\ last.fn = "get_spring_color"
    /\ last.arg[1] = 275000
    /\ last.ret = << 127, 0, 127 >>

\* The names of the fields of a SimulationResult.
ResultFields ==
    {"time", "z_s", "z_u", "u", "lon", "road_x", "road_z",
     "L0_s", "L0_u", "h_s", "h_u", "a", "Kt"}

FrameOfValidIndex ==
    /\ last.fn = "create_animation_frame"
    /\ last.arg[1] >= 0
    /\ last.arg[1] < Len(result.time)
    /\ last.ret.raised = "none"

\* The profile of res with the sentinel points, in figure coordinates.
ExtendedRoadX(res) ==
    << SentinelLow * PlotPerMetre >> \o PSeq(res.road_x) \o << SentinelHigh * PlotPerMetre >>

ExtendedRoadZ(res) == << 0 >> \o PSeq(res.road_z) \o << 0 >>

\* view is the least contiguous slice of the extended profile (ex, ez) that
\* holds every point within half of either side of x, and one more point on
\* each side where the profile has one.
MinimalSliceWithGuards(view, ex, ez, x, half) ==
    LET inside == {k \in 1..Len(ex) : ex[k] >= x - half /\ ex[k] <= x + half}
    IN  /\ inside # {}
        /\ \E lo \in inside, hi \in inside :
               /\ \A k \in inside : lo <= k /\ k <= hi
               /\ LET s == IF lo > 1 THEN lo - 1 ELSE lo
                      e == IF hi < Len(ex) THEN hi + 1 ELSE hi
                  IN  /\ view.x = SubSeq(ex, s, e)
                      /\ view.z = SubSeq(ez, s, e)

\* C13 as stated: for every valid index i the road polyline of frame i is the
\* least contiguous slice of the sentinel-extended profile covering
\* [lon[i] - 1, lon[i] + 1] plus one guard point on each side.
C13_SliceOfHalfWindow ==
    FrameOfValidIndex =>
        MinimalSliceWithGuards(last.ret.fig.road, ExtendedRoadX(result),
                               ExtendedRoadZ(result),
                               P(result.lon[last.arg[1] + 1]), PlotPerMetre)

\* C13, amended: for every valid index i the road polyline of frame i is the
\* least contiguous slice of the sentinel-extended profile covering
\* [lon[i] - 2, lon[i] + 2], twice the displayed half-window, plus one guard
\* point on each side.
C13_SliceOfBufferedWindow ==
    FrameOfValidIndex =>
        MinimalSliceWithGuards(last.ret.fig.road, ExtendedRoadX(result),
                               ExtendedRoadZ(result),
                               P(result.lon[last.arg[1] + 1]), l_win * PlotPerMetre)

\* A frame in the middle of the travel: both guard points are profile points,
\* and the polyline holds profile points between 1 m and 2 m from the car.
C13_Witness ==
    /\ FrameOfValidIndex
    /\ LET view == last.ret.fig.road
           x == P(result.lon[last.arg[1] + 1])
       IN  /\ view.x[1] > SentinelLow * PlotPerMetre
           /\ view.x[1] < x - l_win * PlotPerMetre
           /\ view.x[Len(view.x)] < SentinelHigh * PlotPerMetre
           /\ view.x[Len(view.x)] > x + l_win * PlotPerMetre
           /\ view.x[2] >= x - l_win * PlotPerMetre
           /\ view.x[3] < x - PlotPerMetre

\* C14: for every valid index i, the first and the last included, the road
\* polyline of frame i spans the displayed x-range: its x are strictly
\* increasing, the first is <= lon[i] - 1 and the last >= lon[i] + 1, the
\* displayed range is exactly [lon[i] - 1, lon[i] + 1], and where that range
\* reaches beyond the stored profile the polyline ends with the sentinel
\* point x = -10 or x = 100 at height 0.
C14_RoadSpansDisplayedRange ==
    FrameOfValidIndex =>
        LET view == last.ret.fig.road
            x == P(result.lon[last.arg[1] + 1])
            n == Len(view.x)
            first_x == P(result.road_x[1])
            last_x == P(result.road_x[Len(result.road_x)])
        IN  /\ n >= 2
            /\ Len(view.z) = n
            /\ StrictlyIncreasing(view.x)
            /\ view.x[1] <= x - PlotPerMetre
            /\ view.x[n] >= x + PlotPerMetre
            /\ last.ret.fig.xrange = << x - PlotPerMetre, x + PlotPerMetre >>
            /\ (x - PlotPerMetre < first_x) =>
                   view.x[1] = SentinelLow * PlotPerMetre /\ view.z[1] = 0
            /\ (x + PlotPerMetre > last_x) =>
                   view.x[n] = SentinelHigh * PlotPerMetre /\ view.z[n] = 0

\* The frame of the last sample of a run of more than two samples: the
\* displayed range ends beyond the profile, the polyline at the upper sentinel.
C14_Witness ==
    /\ FrameOfValidIndex
    /\ Len(result.time) > 2
    /\ last.arg[1] = Len(result.time) - 1
    /\ P(result.lon[Len(result.lon)]) + PlotPerMetre
           > P(result.road_x[Len(result.road_x)])
    /\ last.ret.fig.road.x[Len(last.ret.fig.road.x)] = SentinelHigh * PlotPerMetre
    /\ last.ret.fig.road.x[1] > SentinelLow * PlotPerMetre

\* The polyline line has at least two vertices, as many x as z.
AtLeastTwoVertices(line) == Len(line.x) >= 2 /\ Len(line.z) = Len(line.x)

\* C15: for every index i with 0 <= i < len(time), the first and the last
\* included, create_animation_frame does not raise, and the road window, the
\* two mass rings, the two springs and the four damper parts have at least 2
\* vertices each; so has the flat two-point fallback of the road window.
C15_FrameGeometry ==
    (/\ last.fn = "create_animation_frame"
     /\ last.arg[1] >= 0
     /\ last.arg[1] < Len(result.time)) =>
        /\ last.ret.raised = "none"
        /\ AtLeastTwoVertices(last.ret.fig.road)
        /\ AtLeastTwoVertices(last.ret.fig.sprung)
        /\ AtLeastTwoVertices(last.ret.fig.unsprung)
        /\ AtLeastTwoVertices(last.ret.fig.tire_spring)
        /\ AtLeastTwoVertices(last.ret.fig.susp_spring)
        /\ Len(last.ret.fig.damper) = 4
        /\ \A d \in 1..4 : AtLeastTwoVertices(last.ret.fig.damper[d])
        /\ LET far == (SentinelHigh + l_win + 1 + last.arg[1]) * PlotPerMetre
               flat == RoadView(result.road_x, result.road_z, far)
           IN  /\ flat.x = << far - l_win * PlotPerMetre, far + l_win * PlotPerMetre >>
               /\ flat.z = << 0, 0 >>

\* The frame of the last sample of a run, with all its parts.
C15_Witness ==
    /\ last.fn = "create_animation_frame"
    /\ Len(result.time) > 2
    /\ last.arg[1] = Len(result.time) - 1
    /\ last.ret.raised = "none"
    /\ Len(last.ret.fig.tire_spring.x) = 8
    /\ Len(last.ret.fig.sprung.x) = 5
    /\ Len(last.ret.fig.damper[4].x) = 2

\* A step that makes a plotting call leaves every field of result as it was,
\* and the value it returns is that of the call made on its own.
PureStep ==
    /\ (last'.fn = "create_animation_frame") =>
           /\ result' = result
           /\ \A f \in ResultFields : result'[f] = result[f]
           /\ last'.ret = create_animation_frame(result', last'.arg[1])
    /\ (last'.fn = "create_displacement_plot") =>
           /\ result' = result
           /\ \A f \in ResultFields : result'[f] = result[f]
           /\ last'.ret = create_displacement_plot(result', last'.arg)

RodLength(L0) == (15 * L0) \div 100

\* C17: for every z_bottom, z_top and L0, create_spring_trace returns 8
\* vertices, the first at (x_center, z_bottom) and the last at (x_center,
\* z_top); the lower and the upper rod are 0.15 * L0 long whatever the
\* compression, the two coil segments are equally high, and the coil vertices
\* alternate between x_center + width and x_center - width.
C17_SpringTrace ==
    last.fn = "create_spring_trace" =>
        LET arg == last.arg[1]
            x == last.ret.x
            z == last.ret.z
            width == PlotPerMetre \div 10
        IN  /\ Len(x) = 8 /\ Len(z) = 8
            /\ x[1] = arg.x_center /\ z[1] = arg.z_bottom
            /\ x[8] = arg.x_center /\ z[8] = arg.z_top
            /\ x[2] = arg.x_center /\ x[7] = arg.x_center
            /\ z[2] - z[1] = RodLength(arg.L0)
            /\ z[8] - z[7] = RodLength(arg.L0)
            /\ 100 * (z[2] - z[1]) = 15 * arg.L0
            /\ z[3] = z[2] /\ z[5] = z[4] /\ z[7] = z[6]
            /\ z[4] - z[3] = z[6] - z[5]
            /\ x[3] = arg.x_center + width /\ x[4] = arg.x_center - width
            /\ x[5] = arg.x_center + width /\ x[6] = arg.x_center - width

\* A compressed spring: shorter than its natural length, its coil still upright.
C17_Witness ==
    /\ last.fn = "create_spring_trace"
    /\ last.arg[1].L0 > 0
    /\ last.arg[1].z_top - last.arg[1].z_bottom < last.arg[1].L0
    /\ last.ret.z[4] > last.ret.z[3]
    /\ last.ret.z[8] = last.arg[1].z_top

Times(k, q) == Lowest(Rat(k * Lowest(q).n, Lowest(q).d))

Plus(p, q) == Lowest(Rat(p.n * q.d + q.n * p.d, p.d * q.d))

\* Row r of A x + B c for the state x and the road height c, exactly.
ExactDeriv(A, B, x, c, r) ==
    Plus(Plus(Plus(Times(x[1], A[r][1]), Times(x[2], A[r][2])),
              Plus(Times(x[3], A[r][3]), Times(x[4], A[r][4]))),
         Times(c, B[r]))

\* Constant road heights, in length units.
HeightSet == {0, 1, 7, R, -R}

\* C19: for positive M, m, Ks, Kt and Cs >= 0 the suspension forces on the
\* two masses are equal and opposite and the static gain is one: m * A[1][j]
\* + M * A[3][j] is 0 in the columns of z_u_dot, z_s and z_s_dot and -Kt in
\* the column of z_u (rows and columns counted from 0); B is zero but for
\* Kt / m in the row of the unsprung acceleration; and for every constant
\* road height c the state (c, 0, c, 0) gives A x + B c = 0.
C19_StateSpaceAlgebra ==
    (last.fn = "StateSpace" /\ ValidParams) =>
        LET A == last.ret.A
            B == last.ret.B
            force(j) == Plus(Times(params.m, A[2][j]), Times(params.M, A[4][j]))
        IN  /\ last.ret.raised = "none"
            /\ last.arg[1] = params
            /\ force(1) = Rat(-params.Kt, 1)
            /\ \A j \in 2..4 : force(j) = Rat(0, 1)
            /\ Lowest(B[2]) = Lowest(Rat(params.Kt, params.m))
            /\ \A r \in {1, 3, 4} : B[r].n = 0
            /\ \A c \in HeightSet : \A r \in 1..4 :
                   ExactDeriv(A, B, << c, 0, c, 0 >>, c, r) = Rat(0, 1)

\* The matrices of a damped system whose masses and stiffnesses are not the
\* defaults.
C19_Witness ==
    /\ last.fn = "StateSpace"
    /\ ValidParams
    /\ params.Cs > 0
    /\ params.M # DefaultParams.M
    /\ Lowest(last.ret.A[4][4]) = Lowest(Rat(-params.Cs, params.M))
    /\ last.ret.A[2][1].n < 0

\* The number of samples of the simulation data the browser holds.
StoredFrames == Len(browser.simulation_data[1].time)

\* C20: in every reachable state of the playback state machine, under any
\* order and interleaving of start clicks, interval ticks, play/pause clicks,
\* speed changes and slider scrubs, with callback responses arriving late and
\* the clocks of server and browser independent, the stored frame index is an
\* integer with 0 <= frame-index <= len(time) - 1 of the simulation data
\* stored at that moment.
C20_FrameIndexInRange ==
    browser.simulation_data # None =>
        /\ 0 <= browser.frame_index
        /\ browser.frame_index <= StoredFrames - 1

\* C21: the running flag and the interval timer never disagree: in every
\* reachable state, after any sequence of start, tick, play/pause and
\* completion events, is-running is true exactly when the animation interval
\* is enabled (disabled = not is-running).
C21_RunningIffIntervalEnabled ==
    browser.is_running <=> ~browser.interval_disabled

\* A run has played, the controls are shown and the user has acted again: the
\* playback rests before its last frame, the flag down and the interval
\* disabled.
C21_Witness ==
    /\ variant = "app"
    /\ browser.simulation_data # None
    /\ ~browser.is_running
    /\ browser.interval_disabled
    /\ browser.frame_index < StoredFrames - 1
    /\ browser.player_controls = "flex"
    /\ clicks >= 2

\* The only thing the user has done is the start click of the first run, before
\* and after the step: no pause, no restart, no speed change, no scrub, no
\* second run.
OnlyStarted == clicks = 1 /\ clicks' = 1

\* A step of the first playback in which the frame index does not go down.
FrameKept == OnlyStarted => browser'.frame_index >= browser.frame_index

\* C22: playback terminates at the last frame: after a start click, provided
\* interval ticks keep firing and the user neither pauses nor starts a new
\* run, the frame index never decreases, eventually equals len(time) - 1, and
\* at that point is-running becomes false and the interval is disabled; every
\* later tick leaves frame index, is-running and the interval unchanged.  In
\* the step-based variant the index advances by exactly 1 per tick, visiting
\* every index from 0 to len(time) - 1 in order.  Stated here is its first
\* part: no step of that playback lowers the frame index.
C22_FrameNeverDecreases == [][FrameKept]_vars

\* The calls of on_slider_change a step adds to those outstanding, and those
\* whose response it sets.
SliderCallsMade ==
    {c \in in_flight' \ in_flight : c.callback = "on_slider_change"}

SliderCallsAnswered ==
    {c \in in_flight \ in_flight' : c.callback = "on_slider_change"}

\* on_slider_change is called in the step and returns an update: the playback
\* is paused, data is stored, the update is the slider's value, and the value
\* lies within the indices of the stored data, the slider's maximum being the
\* last of them.
ScrubTakesEffect ==
    \A c \in SliderCallsMade :
        /\ ~browser'.is_running
        /\ browser'.simulation_data # None
        /\ c.outputs = [frame_index |-> browser'.slider_value]
        /\ browser'.slider_max = Len(browser'.simulation_data[1].time) - 1
        /\ 0 <= browser'.slider_value
        /\ browser'.slider_value <= browser'.slider_max

\* The slider's value changes in the step: while paused with data stored
\* on_slider_change has an update outstanding afterwards, and the frame index
\* is the slider's value once it is set; otherwise none is made.
ScrubReceived ==
    (browser'.slider_value # browser.slider_value) =>
        IF ~browser'.is_running /\ browser'.simulation_data # None
        THEN Call("on_slider_change", [frame_index |-> browser'.slider_value])
                 \in in_flight'
        ELSE SliderCallsMade = {}

ScrubAnswered ==
    \A c \in SliderCallsAnswered :
        browser'.frame_index = c.outputs.frame_index

\* C23: slider scrubbing only takes effect while paused: a time-slider value
\* change received while is-running is true, or while no simulation data is
\* stored, leaves the frame index unchanged; received while paused with data
\* present it sets the frame index to the slider value, which is within
\* [0, len(time) - 1] because the slider maximum is set to len(time) - 1 by
\* the run that produced the data.
C23_ScrubOnlyWhilePaused ==
    [][ScrubTakesEffect /\ ScrubReceived /\ ScrubAnswered]_vars

\* The user has dragged the slider of a paused 180-frame run to its middle and
\* the response has been set: the frame index is the slider's value.
C23_Witness ==
    /\ variant = "app"
    /\ browser.simulation_data # None
    /\ ~browser.is_running
    /\ browser.slider_max = 179
    /\ browser.slider_value = 89
    /\ browser.frame_index = 89
    /\ in_flight = {}

\* The calls of toggle_play_pause a step adds to those outstanding, and those
\* whose response it sets.
ToggleCallsMade ==
    {c \in in_flight' \ in_flight : c.callback = "toggle_play_pause"}

ToggleCallsAnswered ==
    {c \in in_flight \ in_flight' : c.callback = "toggle_play_pause"}

\* A click while running: the response is is-running false and the interval
\* disabled, and no frame index.
ClickPauses ==
    \A c \in ToggleCallsMade :
        browser.is_running =>
            c.outputs = [is_running |-> FALSE, interval_disabled |-> TRUE]

\* A click while paused at the last frame: the response is is-running true,
\* frame index 0 and the start time the tick initialises.
ClickRestarts ==
    \A c \in ToggleCallsMade :
        (~browser.is_running /\ browser.frame_index >= StoredFrames - 1) =>
            c.outputs = [is_running |-> TRUE, interval_disabled |-> FALSE,
                         frame_index |-> 0,
                         animation_start_time |-> StartInit]

\* A click while paused before the last frame: the response is is-running
\* true and no frame index.
ClickResumes ==
    \A c \in ToggleCallsMade :
        (~browser.is_running /\ browser.frame_index < StoredFrames - 1) =>
            /\ DOMAIN c.outputs =
                   {"is_running", "interval_disabled", "animation_start_time"}
            /\ c.outputs.is_running
            /\ ~c.outputs.interval_disabled
            /\ c.outputs.animation_start_time.tag = "at"

\* (t - start_time) / duration_ms = frame_idx / (num_frames - 1), start_time
\* the quotient s.
ElapsedFractionIs(t, s, duration_ms, frame_idx, num_frames) ==
    (t * s.d - s.n) * (num_frames - 1) = frame_idx * duration_ms * s.d

\* The start time of a click that resumes: at the click the fraction of the
\* duration that has elapsed since it, as the tick of the interval takes it
\* from Date.now(), is frame-index / (len(time) - 1).
ClickResumesAtFrame ==
    \A c \in ToggleCallsMade :
        (~browser.is_running /\ browser.frame_index < StoredFrames - 1) =>
            /\ StoredFrames - 1 > 0
            /\ ElapsedFractionIs(now, c.outputs.animation_start_time.at,
                                 browser.animation_duration_ms,
                                 browser.frame_index, StoredFrames)

\* The same fraction taken from the clock toggle_play_pause reads.
ClickResumesAtFrameOfServer ==
    \A c \in ToggleCallsMade :
        (~browser.is_running /\ browser.frame_index < StoredFrames - 1) =>
            /\ StoredFrames - 1 > 0
            /\ ElapsedFractionIs(now + skew, c.outputs.animation_start_time.at,
                                 browser.animation_duration_ms,
                                 browser.frame_index, StoredFrames)

\* The response of a click is set: the stores are as it says, and the frame
\* index is as before unless the click restarts.
ToggleAnswered ==
    \A c \in ToggleCallsAnswered :
        /\ browser'.is_running = c.outputs.is_running
        /\ browser'.interval_disabled = ~c.outputs.is_running
        /\ browser'.frame_index =
               IF "frame_index" \in DOMAIN c.outputs THEN 0
               ELSE browser.frame_index
        /\ "animation_start_time" \in DOMAIN c.outputs =>
               browser'.animation_start_time = c.outputs.animation_start_time

\* A click with no data stored changes nothing.
ClickWithoutData ==
    \A is_running \in BOOLEAN, frame_idx \in 0 .. IdxMargin :
        toggle_play_pause(is_running, None, frame_idx, 3000, 0) = NoUpdate

\* Data of one sample: a click while paused restarts, whatever index within
\* the data and beyond is stored, and nothing is divided by len(time) - 1.
SingleFrameRestarts ==
    \A frame_idx \in 0 .. IdxMargin :
        toggle_play_pause(FALSE, Some([time |-> <<0>>]), frame_idx, 0, 0)
            = [is_running |-> TRUE, interval_disabled |-> FALSE,
               frame_index |-> 0, animation_start_time |-> StartInit]

\* C24: play/pause toggling: a click while running pauses (is-running false,
\* interval disabled) and leaves the frame index unchanged; a click while
\* paused at a frame before the last resumes (is-running true) leaving the
\* frame index unchanged and setting the start time so that the elapsed
\* fraction equals frame-index / (len(time) - 1); a click while paused at the
\* last frame restarts from frame index 0 with the start time re-initialised;
\* a click with no simulation data changes nothing, and no division by zero
\* occurs when len(time) = 1.
C24_PlayPauseToggles ==
    [][/\ ClickPauses
       /\ ClickResumes
       /\ ClickResumesAtFrame
       /\ ClickRestarts
       /\ ToggleAnswered
       /\ ClickWithoutData
       /\ SingleFrameRestarts]_vars

\* The calls of start_simulation whose response a step sets.
StartCallsAnswered ==
    {c \in in_flight \ in_flight' : c.callback = "start_simulation"}

\* In the first playback of a run the player controls and the displacement
\* plot are hidden.  (The stores and the controls are those of src/app.py.)
HiddenInFirstPlayback ==
    (variant = "app" /\ browser.first_run /\ browser.is_running) =>
        /\ browser.player_controls = "none"
        /\ browser.displacement_content = "hidden"

\* The response of a start click is set: first-run is true, the frame index
\* 0 and the speed 1x, the duration being that of the run.
StartResets ==
    (variant = "app" /\ StartCallsAnswered # {}) =>
        /\ browser'.first_run
        /\ browser'.frame_index = 0
        /\ browser'.video_speed = SpeedOne
        /\ browser'.animation_duration_ms = browser'.base_duration_ms

\* The controls appear, or first-run is cleared, in a step: both happen in
\* it, with the displacement plot shown and the playback stopped.
ShownWhenStopped ==
    (\/ browser.player_controls = "none" /\ browser'.player_controls = "flex"
     \/ browser.first_run /\ ~browser'.first_run) =>
        /\ browser.first_run
        /\ ~browser'.first_run
        /\ browser'.player_controls = "flex"
        /\ browser'.displacement_content = "visible"
        /\ ~browser'.is_running
        /\ browser'.interval_disabled

\* The controls or the displacement plot disappear, or first-run is set, in
\* a step: it is the step that sets the response of a start click.
ShownUntilStart ==
    (\/ browser.player_controls = "flex" /\ browser'.player_controls = "none"
     \/ browser.displacement_content = "visible"
            /\ browser'.displacement_content = "hidden"
     \/ ~browser.first_run /\ browser'.first_run) =>
        StartCallsAnswered # {}

\* C25: player controls stay hidden during the first playback of each run:
\* in every reachable state, first-run = true and is-running = true implies
\* the player controls and the displacement plot are hidden; every start
\* click sets first-run to true, frame index to 0 and speed to 1x; the
\* controls become visible and first-run becomes false only when that
\* playback stops, and they stay visible through later pause/resume cycles
\* until the next start click.
C25_ControlsHiddenInFirstPlayback ==
    /\ []HiddenInFirstPlayback
    /\ [][StartResets /\ ShownWhenStopped /\ ShownUntilStart]_vars

\* A second run is in its first playback with the controls hidden, some
\* frames on.
C25_Witness ==
    /\ variant = "app"
    /\ clicks >= 2
    /\ browser.first_run
    /\ browser.is_running
    /\ browser.frame_index > 0
    /\ browser.player_controls = "none"
    /\ browser.displacement_content = "hidden"

====
